---- MODULE Spec2Model ----
(***************************************************************************)
(* Streaming reductions of keras_core/metrics/reduction_metrics.py:        *)
(* reduce_to_samplewise_values, Sum, Mean and MeanMetricWrapper.           *)
(*                                                                         *)
(* Numbers are exact rationals <<n, d>> in lowest terms (d > 0), so a      *)
(* fractional weight, the mean of a row and the epsilon of Mean.result are *)
(* all representable; floating-point rounding is not modelled.  A tensor   *)
(* is a record [shape, data] with the data in row-major order, as the      *)
(* backend stores it.  An optional value (None in the source) is a         *)
(* sequence of length 0 or 1.                                              *)
(***************************************************************************)
EXTENDS Integers, Sequences, FiniteSets, TLC

(* ------------------------------ bounds --------------------------------- *)
\* Largest axis-0 length (number of samples) of a batch.
MaxBatch == 2
\* Largest number of update_state calls made on one metric object.
MaxOps == 2

(* ---------------------------- rationals -------------------------------- *)
Abs(x) == IF x < 0 THEN -x ELSE x

RECURSIVE GCD(_, _)
GCD(a, b) == IF b = 0 THEN a ELSE GCD(b, a % b)

\* n/d divided through by g, the denominator made positive.
Reduced(n, d, g) == IF d < 0 THEN <<(-n) \div g, (-d) \div g>> ELSE <<n \div g, d \div g>>

\* n/d in lowest terms.
Rat(n, d) == IF d = 1 THEN <<n, 1>> ELSE Reduced(n, d, GCD(Abs(n), Abs(d)))

Zero == <<0, 1>>
One == <<1, 1>>
Half == <<1, 2>>
FromInt(i) == <<i, 1>>
RAdd(a, b) ==
    IF a[2] = b[2] THEN Rat(a[1] + b[1], a[2])
    ELSE Rat(a[1] * b[2] + b[1] * a[2], a[2] * b[2])
RSub(a, b) == Rat(a[1] * b[2] - b[1] * a[2], a[2] * b[2])
RMul(a, b) == Rat(a[1] * b[1], a[2] * b[2])
RDiv(a, b) == Rat(a[1] * b[2], a[2] * b[1])
RLeq(a, b) == a[1] * b[2] <= b[1] * a[2]

\* ops.cast(x, dtype="int64") of a real: truncation toward zero.
CastInt64(a) == IF a[1] >= 0 THEN a[1] \div a[2] ELSE -((-a[1]) \div a[2])

\* backend.epsilon(): 1e-7.
epsilon == Rat(1, 10000000)

(* ----------------------------- tensors --------------------------------- *)
None == <<>>
Some(x) == <<x>>

RECURSIVE Prod(_)
Prod(s) == IF s = <<>> THEN 1 ELSE Head(s) * Prod(Tail(s))

RECURSIVE SeqSum(_)
SeqSum(s) == IF s = <<>> THEN Zero ELSE RAdd(Head(s), SeqSum(Tail(s)))

Tensor(shape, data) == [shape |-> shape, data |-> data]
Scalar(x) == Tensor(<<>>, <<x>>)
Rank(t) == Len(t.shape)

\* ops.sum(t): the sum of every element.
ops_sum(t) == SeqSum(t.data)

\* ops.ones(shape=(n,)).
ops_ones(n) == Tensor(<<n>>, [i \in 1..n |-> One])

\* reduce_fn(t, axis=list(range(k, ndim))): axes k.. collapsed, axes 0..k-1 kept.
reduce_fn(kind, t, k) ==
    LET keep == SubSeq(t.shape, 1, k)
        blk == Prod(SubSeq(t.shape, k + 1, Len(t.shape)))
        cell(i) == SeqSum(SubSeq(t.data, (i - 1) * blk + 1, i * blk))
    IN  Tensor(keep, [i \in 1..Prod(keep) |->
            IF kind = "sum" THEN cell(i) ELSE RDiv(cell(i), FromInt(blk))])

\* A shape of rank <= 2 padded on the left with 1s, as broadcasting aligns it.
Pad2(s) == IF Len(s) = 0 THEN <<1, 1>> ELSE IF Len(s) = 1 THEN <<1, s[1]>> ELSE s

Max(a, b) == IF a >= b THEN a ELSE b

\* Whether a * b broadcasts (every aligned axis equal, or 1 on one side).
Broadcastable(a, b) ==
    LET sa == Pad2(a.shape)
        sb == Pad2(b.shape)
    IN  \A i \in 1..2 : sa[i] = sb[i] \/ sa[i] = 1 \/ sb[i] = 1

\* a * b, elementwise with broadcasting (ranks <= 2).
Multiply(a, b) ==
    LET sa == Pad2(a.shape)
        sb == Pad2(b.shape)
        R == Max(sa[1], sb[1])
        C == Max(sa[2], sb[2])
        r == Max(Rank(a), Rank(b))
        at(t, s, i, j) ==
            t.data[(IF s[1] = 1 THEN 0 ELSE i) * s[2] + (IF s[2] = 1 THEN 0 ELSE j) + 1]
    IN  Tensor(SubSeq(<<R, C>>, 3 - r, 2),
               [k \in 1..(R * C) |->
                   RMul(at(a, sa, (k - 1) \div C, (k - 1) % C),
                        at(b, sb, (k - 1) \div C, (k - 1) % C))])

\* ops.squeeze(t, axis=-1).
Squeeze(t) == Tensor(SubSeq(t.shape, 1, Len(t.shape) - 1), t.data)

\* loss.squeeze_to_same_rank(x1, x2): when the ranks differ by exactly one, a
\* trailing axis of size 1 of the longer operand is dropped.
squeeze_to_same_rank(x1, x2) ==
    IF Rank(x1) = Rank(x2) + 1 /\ x1.shape[Rank(x1)] = 1 THEN <<Squeeze(x1), x2>>
    ELSE IF Rank(x2) = Rank(x1) + 1 /\ x2.shape[Rank(x2)] = 1 THEN <<x1, Squeeze(x2)>>
    ELSE <<x1, x2>>

\* loss.apply_mask(sample_weight, mask, dtype, reduction="sum"): the weight times
\* the mask after rank alignment; err when the two do not broadcast.
apply_mask_aligned(p) ==
    IF Broadcastable(p[2], p[1])
    THEN [err |-> "none", weight |-> Multiply(p[2], p[1])]
    ELSE [err |-> "ShapeError", weight |-> p[2]]

apply_mask(sample_weight, mask) ==
    apply_mask_aligned(squeeze_to_same_rank(mask, sample_weight))

(* ---------------------- reduce_to_samplewise_values -------------------- *)
\* What the function returns: kind "pair" is the tuple (values, sample_weight),
\* kind "tensor" is a bare tensor (held in values), kind "error" a raised
\* exception named by err.
Ret(kind, values, weight, err) ==
    [kind |-> kind, values |-> values, weight |-> weight, err |-> err]

Raise(err) == Ret("error", Scalar(Zero), None, err)

\* Lines 29-32, entered with the (possibly weighted) values.
reduce_tail(values, sample_weight, kind) ==
    IF Rank(values) > 1
    THEN Ret("tensor", reduce_fn(kind, values, 1), None, "none")
    ELSE Ret("pair", values, sample_weight, "none")

\* Line 27, values * sample_weight, and what follows it.
reduce_scaled(values, sample_weight, kind) ==
    IF Broadcastable(values, sample_weight)
    THEN reduce_tail(Multiply(values, sample_weight), Some(sample_weight), kind)
    ELSE Raise("ShapeError")

\* Lines 21-26, entered with the pair p that squeeze_to_same_rank returned.
reduce_aligned(p, kind) ==
    reduce_scaled(IF Rank(p[1]) > Rank(p[2]) THEN reduce_fn(kind, p[1], Rank(p[2])) ELSE p[1],
                  p[2], kind)

\* Lines 16-27, entered with the (possibly mask-merged) weight.
reduce_weighted(values, sample_weight, kind) ==
    reduce_aligned(squeeze_to_same_rank(values, sample_weight), kind)

\* Lines 15-27, entered with what apply_mask returned.
reduce_masked(values, m, kind) ==
    IF m.err # "none" THEN Raise(m.err) ELSE reduce_weighted(values, m.weight, kind)

\* reduce_to_samplewise_values(values, sample_weight, reduce_fn, dtype); mask is
\* values._keras_mask.
reduce_to_samplewise_values(values, mask, sample_weight, kind) ==
    IF sample_weight # None
    THEN IF mask # None
         THEN reduce_masked(values, apply_mask(sample_weight[1], mask[1]), kind)
         ELSE reduce_weighted(values, sample_weight[1], kind)
    ELSE reduce_tail(values, sample_weight, kind)

\* t[i - 1]: the i-th item of a tensor along axis 0.
Item(t, i) ==
    Tensor(Tail(t.shape),
           SubSeq(t.data, (i - 1) * Prod(Tail(t.shape)) + 1, i * Prod(Tail(t.shape))))

\* The tuple assignment `values, sample_weight = <returned>` of the callers: a
\* pair unpacks into its components; a bare tensor is iterated along axis 0 and
\* unpacks only when that axis has length exactly 2.
Unpack(r) ==
    IF r.kind = "error" THEN r
    ELSE IF r.kind = "pair" THEN r
    ELSE IF Rank(r.values) = 0 THEN Raise("TypeError")
    ELSE IF r.values.shape[1] # 2 THEN Raise("ValueError")
    ELSE Ret("pair", Item(r.values, 1), Some(Item(r.values, 2)), "none")

(* ------------------------------- Sum ----------------------------------- *)
\* What a method call leaves behind: the variables total and count, the
\* exception it raised ("none" when it returned) and the value it returned.
Out(total, count, raised, value) ==
    [total |-> total, count |-> count, raised |-> raised, value |-> value]

\* Sum.update_state(values, sample_weight); count is not a variable of Sum and is
\* carried through unchanged.
Sum_assign(total, count, r) ==
    IF r.kind = "error"
    THEN Out(total, count, r.err, None)
    ELSE Out(RAdd(total, ops_sum(r.values)), count, "none", None)

Sum_update_state(total, count, values, mask, sample_weight) ==
    Sum_assign(total, count,
               Unpack(reduce_to_samplewise_values(values, mask, sample_weight, "sum")))

\* Sum.reset_state().
Sum_reset_state(total, count) == Out(Zero, count, "none", None)

\* Sum.result().
Sum_result(total, count) == Out(total, count, "none", Some(total))

(* ------------------------------- Mean ---------------------------------- *)
\* Lines 106-109: num_samples, or the exception its computation raises.
Mean_num_samples(values, sample_weight) ==
    IF Rank(values) = 0
    THEN [err |-> "IndexError", num |-> Zero]
    ELSE IF sample_weight = None
    THEN [err |-> "none", num |-> FromInt(values.shape[1])]
    ELSE IF ~Broadcastable(ops_ones(values.shape[1]), sample_weight[1])
    THEN [err |-> "ShapeError", num |-> Zero]
    ELSE [err |-> "none",
          num |-> ops_sum(Multiply(ops_ones(values.shape[1]), sample_weight[1]))]

\* Mean.update_state(values, sample_weight): total is assigned on line 105, before
\* num_samples is computed and count assigned.
\* Line 110, entered with total already assigned and num_samples computed (ns).
Mean_assign_count(total, count, ns) ==
    IF ns.err # "none" THEN Out(total, count, ns.err, None)
    ELSE Out(total, count + CastInt64(ns.num), "none", None)

Mean_assign_overwrites(total, count, r) ==
    IF r.kind = "error" THEN Out(total, count, r.err, None)
    ELSE Mean_assign_count(ops_sum(r.values), count, Mean_num_samples(r.values, r.weight))

\* Lines 105-110, entered with the unpacked return of the reducer.
Mean_assign(total, count, r) ==
    IF r.kind = "error" THEN Out(total, count, r.err, None)
    ELSE Mean_assign_count(RAdd(total, ops_sum(r.values)), count,
                           Mean_num_samples(r.values, r.weight))

Mean_update_state(total, count, values, mask, sample_weight) ==
    Mean_assign(total, count,
                Unpack(reduce_to_samplewise_values(values, mask, sample_weight, "mean")))

Mean_reset_state_keeps_count(total, count) == Out(Zero, count, "none", None)

\* Mean.reset_state().
Mean_reset_state(total, count) == Out(Zero, 0, "none", None)

Mean_result_clears(total, count) ==
    Out(Zero, 0, "none", Some(RDiv(total, RAdd(FromInt(count), epsilon))))

\* Mean.result().
Mean_result(total, count) ==
    Out(total, count, "none", Some(RDiv(total, RAdd(FromInt(count), epsilon))))

(* -------------------------- MeanMetricWrapper -------------------------- *)
\* The wrapped function: mse of the class docstring, (y_true - y_pred) ** 2,
\* elementwise on operands of one shape.  Its result carries no mask.
Fn(y_true, y_pred) ==
    Tensor(y_pred.shape,
           [i \in 1..Len(y_pred.data) |->
               RMul(RSub(y_true.data[i], y_pred.data[i]),
                    RSub(y_true.data[i], y_pred.data[i]))])

\* MeanMetricWrapper.update_state(y_true, y_pred, sample_weight); predMask and
\* trueMask are the _keras_mask of y_pred and of y_true.  calls counts the
\* invocations of self._fn.
\* Lines 154-155: the sample_weight handed on, or the exception apply_mask raised.
Optional(m) == [err |-> m.err, weight |-> Some(m.weight)]

Wrapper_weight(sample_weight, mask) ==
    IF sample_weight # None /\ mask # None
    THEN Optional(apply_mask(sample_weight[1], mask[1]))
    ELSE [err |-> "none", weight |-> sample_weight]

\* Line 156, entered with fn's result and the weight of lines 154-155.
Wrapper_super(total, count, values, w) ==
    IF w.err # "none" THEN Out(total, count, w.err, None)
    ELSE Mean_update_state(total, count, values, None, w.weight)

MeanMetricWrapper_update_state_true_mask(total, count, y_true, trueMask, y_pred, predMask, sample_weight) ==
    [calls |-> 1,
     out |-> Wrapper_super(total, count, Fn(y_true, y_pred),
                           Wrapper_weight(sample_weight, trueMask))]

MeanMetricWrapper_update_state(total, count, y_true, trueMask, y_pred, predMask, sample_weight) ==
    [calls |-> 1,
     out |-> Wrapper_super(total, count, Fn(y_true, y_pred),
                           Wrapper_weight(sample_weight, predMask))]

(* ------------------------------ inputs --------------------------------- *)
ValElems == {FromInt(1), FromInt(3)}
WeightElems == {Half, One}
MaskElems == {Zero, One}
TrueElems == {Zero, One}
PredElems == {FromInt(2)}

BatchSizes == 1..MaxBatch

\* Rank-1 tensors of n elements of E.
Vectors(n, E) == {Tensor(<<n>>, d) : d \in [1..n -> E]}

\* Those in ascending order: one per multiset of elements.  The value batches
\* are drawn in this order; weights and masks take every order against them.
Ascending(n, E) ==
    {t \in Vectors(n, E) : \A i \in 1..(n - 1) : RLeq(t.data[i], t.data[i + 1])}

\* Rows of the rank-2 batches, by trailing-axis length.
RowsOf(m) ==
    IF m = 1 THEN {<<FromInt(3)>>}
    ELSE {<<FromInt(1), FromInt(3)>>, <<FromInt(3), FromInt(3)>>}

\* Rank-2 tensors of n rows of length m, the rows in ascending order of their sum.
Matrices(n, m) ==
    {Tensor(<<n, m>>, [k \in 1..(n * m) |-> f[((k - 1) \div m) + 1][((k - 1) % m) + 1]]) :
        f \in {g \in [1..n -> RowsOf(m)] :
                  \A i \in 1..(n - 1) : RLeq(SeqSum(g[i]), SeqSum(g[i + 1]))}}

\* The weight 1/2 for each of n samples.
HalfWeights(n) == Some(Tensor(<<n>>, [i \in 1..n |-> Half]))

\* sample_weight arguments for a batch of n samples: None, a scalar, a weight per
\* sample, a vector one too long, a column.
SampleWeights(n) ==
    {None, Some(Scalar(Half)), HalfWeights(n + 1),
     Some(Tensor(<<n, 1>>, [i \in 1..n |-> Half]))}
    \cup {Some(t) : t \in Vectors(n, WeightElems)}

\* Masks attached to a batch of n samples.
MasksOf(n) == {Some(t) : t \in Vectors(n, MaskElems)}

\* The calls update_state(values, sample_weight) made on Sum and Mean: batches
\* without a mask under every weight, and rank-1 batches with a mask, unweighted
\* or under the weight 1/2 per sample.
Calls ==
    UNION {{[values |-> v, mask |-> None, weight |-> w] :
                v \in Ascending(n, ValElems) \cup Matrices(n, 1) \cup Matrices(n, 2),
                w \in SampleWeights(n)} :
            n \in BatchSizes}
    \cup UNION {{[values |-> v, mask |-> m, weight |-> w] :
                    v \in Ascending(n, ValElems), m \in MasksOf(n),
                    w \in {None, HalfWeights(n)}} :
                n \in BatchSizes}

\* The calls update_state(y_true, y_pred, sample_weight) made on the wrapper.
WrapperCalls ==
    UNION {{[y_true |-> yt, trueMask |-> tm, y_pred |-> yp, predMask |-> pm, weight |-> w] :
                yt \in Ascending(n, TrueElems), yp \in Vectors(n, PredElems),
                tm \in {None, Some(Tensor(<<n>>, [i \in 1..n |-> Zero]))},
                pm \in {None} \cup MasksOf(n),
                w \in {None, Some(Scalar(Half)), HalfWeights(n)}} :
            n \in BatchSizes}

(* ------------------ what the calls were meant to fold in --------------- *)
\* A call whose values, weight and mask are all per-sample (rank 1, one length).
SimpleCall(c) ==
    /\ Rank(c.values) = 1
    /\ c.weight # None => c.weight[1].shape = c.values.shape
    /\ c.mask # None => c.mask[1].shape = c.values.shape

OrOne(opt, i) == IF opt = None THEN One ELSE opt[1].data[i]

\* sum of v[i] * w[i] * mask[i] over the samples (a missing weight or mask is 1);
\* for a call that is not per-sample, the sum of every element.
MeantTotal(c) ==
    IF SimpleCall(c)
    THEN SeqSum([i \in 1..Len(c.values.data) |->
             RMul(c.values.data[i], RMul(OrOne(c.weight, i), OrOne(c.mask, i)))])
    ELSE ops_sum(c.values)

\* sum of w[i] * mask[i] over the samples; the axis-0 length when neither is given.
MeantCount(c) ==
    IF SimpleCall(c)
    THEN SeqSum([i \in 1..Len(c.values.data) |->
             RMul(OrOne(c.weight, i), OrOne(c.mask, i))])
    ELSE FromInt(c.values.shape[1])

\* The weight the wrapper is meant to hand to Mean.update_state.
MeantWrapperWeight(c) ==
    IF c.weight # None /\ c.predMask # None
    THEN Optional(apply_mask(c.weight[1], c.predMask[1]))
    ELSE [err |-> "none", weight |-> c.weight]

\* What Mean.update_state leaves when called with fn's result and that weight.
MeantWrapperOut(c, t, n) == Wrapper_super(t, n, Fn(c.y_true, c.y_pred), MeantWrapperWeight(c))

(* ---------------------------- state machine ---------------------------- *)
VARIABLES
    kind,      \* the class of the metric object: "Sum", "Mean" or "Wrapper"
    total,     \* self.total
    count,     \* self.count (0 and unused on Sum)
    op,        \* the last method called: "init", "update", "reset", "result"
    raised,    \* the exception the last call raised, "none" when it returned
    ret,       \* the value the last call returned (None for update and reset)
    nUpd,      \* update_state calls since construction
    nSince,    \* update_state calls since construction or the last reset_state
    reads,     \* result() calls made in a row, ending with the last call: 0, 1,
               \* or 2 for two or more
    fnCalls,   \* invocations of the wrapped function since construction
    tracked,   \* the six history variables below are kept (see Tracked)
    hasW,      \* a call since the last reset passed a sample_weight
    hasM,      \* a call since the last reset carried a mask
    simple,    \* every call since the last reset was per-sample (SimpleCall)
    expTotal,  \* what the calls since the last reset were meant to add to total
    expCount,  \* what they were meant to add to count (a rational)
    rin,       \* reducer check: the arguments of reduce_to_samplewise_values
    rout       \* reducer check: what it returned ("pending" before the call)

vars == <<kind, total, count, op, raised, ret, nUpd, nSince, reads, fnCalls,
          tracked, hasW, hasM, simple, expTotal, expCount, rin, rout>>

metricVars == <<kind, total, count, op, raised, ret, nUpd, nSince, reads, fnCalls,
                tracked, hasW, hasM, simple, expTotal, expCount>>

NoCall == [values |-> Scalar(Zero), mask |-> None, weight |-> None, kind |-> "sum"]
Pending == Ret("pending", Scalar(Zero), None, "none")

\* Sum.__init__ / Mean.__init__ / MeanMetricWrapper.__init__: zero-initialised.
Init ==
    /\ kind \in {"Sum", "Mean", "Wrapper"}
    /\ total = Zero
    /\ count = 0
    /\ op = "init"
    /\ raised = "none"
    /\ ret = None
    /\ nUpd = 0
    /\ nSince = 0
    /\ reads = 0
    /\ fnCalls = 0
    /\ tracked = TRUE
    /\ hasW = FALSE
    /\ hasM = FALSE
    /\ simple = TRUE
    /\ expTotal = Zero
    /\ expCount = Zero
    /\ rin = NoCall
    /\ rout = Pending

\* The assignments every call makes to the object's variables and the call record.
Apply(o, name) ==
    /\ total' = o.total
    /\ count' = o.count
    /\ raised' = o.raised
    /\ ret' = o.value
    /\ op' = name

\* The history of the calls since the last reset is kept while it is one the
\* properties below speak of: per-sample calls only, or (Sum) calls without weight
\* and mask only.  Once it is not, the history variables are cleared.
Tracked(c) ==
    /\ tracked
    /\ \/ simple /\ SimpleCall(c)
       \/ kind = "Sum" /\ ~hasW /\ ~hasM /\ c.weight = None /\ c.mask = None

History(t, w, m, s, et, ec) ==
    /\ tracked' = t
    /\ hasW' = (t /\ w)
    /\ hasM' = (t /\ m)
    /\ simple' = (t /\ s)
    /\ expTotal' = IF t THEN et ELSE Zero
    /\ expCount' = IF t THEN ec ELSE Zero

Folded(c) ==
    History(Tracked(c), hasW \/ c.weight # None, hasM \/ c.mask # None,
            simple /\ SimpleCall(c),
            RAdd(expTotal, MeantTotal(c)), RAdd(expCount, MeantCount(c)))

SumUpdate ==
    /\ kind = "Sum"
    /\ nUpd < MaxOps
    /\ \E c \in Calls :
        /\ Apply(Sum_update_state(total, count, c.values, c.mask, c.weight), "update")
        /\ Folded(c)
    /\ nUpd' = nUpd + 1
    /\ nSince' = nSince + 1
    /\ reads' = 0
    /\ UNCHANGED <<kind, fnCalls, rin, rout>>

MeanUpdate ==
    /\ kind = "Mean"
    /\ nUpd < MaxOps
    /\ \E c \in Calls :
        /\ Apply(Mean_update_state(total, count, c.values, c.mask, c.weight), "update")
        /\ Folded(c)
    /\ nUpd' = nUpd + 1
    /\ nSince' = nSince + 1
    /\ reads' = 0
    /\ UNCHANGED <<kind, fnCalls, rin, rout>>

\* On the wrapper expTotal and expCount hold what Mean.update_state, called from
\* the same state with fn's result and the meant weight, leaves in total and count.
WrapperFolded(c, r, ref) ==
    /\ Apply(r.out, "update")
    /\ fnCalls' = fnCalls + r.calls
    /\ History(TRUE, hasW \/ c.weight # None, hasM \/ c.predMask # None, TRUE,
               ref.total, FromInt(ref.count))

WrapperUpdate ==
    /\ kind = "Wrapper"
    /\ nUpd < MaxOps
    /\ \E c \in WrapperCalls :
        WrapperFolded(c,
                      MeanMetricWrapper_update_state(total, count, c.y_true, c.trueMask,
                                                     c.y_pred, c.predMask, c.weight),
                      MeantWrapperOut(c, total, count))
    /\ nUpd' = nUpd + 1
    /\ nSince' = nSince + 1
    /\ reads' = 0
    /\ UNCHANGED <<kind, rin, rout>>

Reset ==
    /\ Apply(IF kind = "Sum" THEN Sum_reset_state(total, count)
             ELSE Mean_reset_state(total, count), "reset")
    /\ nSince' = 0
    /\ reads' = 0
    /\ History(TRUE, FALSE, FALSE, TRUE, Zero, Zero)
    /\ UNCHANGED <<kind, nUpd, fnCalls, rin, rout>>

Result ==
    /\ Apply(IF kind = "Sum" THEN Sum_result(total, count)
             ELSE Mean_result(total, count), "result")
    /\ reads' = IF reads = 0 THEN 1 ELSE 2
    /\ UNCHANGED <<kind, nUpd, nSince, fnCalls, tracked, hasW, hasM, simple, expTotal,
                   expCount, rin, rout>>

Next == SumUpdate \/ MeanUpdate \/ WrapperUpdate \/ Reset \/ Result

Spec == Init /\ [][Next]_vars

(* ------------- reduce_to_samplewise_values as a pure function ---------- *)
ReduceInit ==
    /\ kind = "Sum"
    /\ total = Zero
    /\ count = 0
    /\ op = "init"
    /\ raised = "none"
    /\ ret = None
    /\ nUpd = 0
    /\ nSince = 0
    /\ reads = 0
    /\ fnCalls = 0
    /\ tracked = TRUE
    /\ hasW = FALSE
    /\ hasM = FALSE
    /\ simple = TRUE
    /\ expTotal = Zero
    /\ expCount = Zero
    /\ \E c \in Calls, k \in {"sum", "mean"} :
        rin = [values |-> c.values, mask |-> c.mask, weight |-> c.weight, kind |-> k]
    /\ rout = Pending

ReduceStep ==
    /\ rout = Pending
    /\ rout' = reduce_to_samplewise_values(rin.values, rin.mask, rin.weight, rin.kind)
    /\ UNCHANGED <<metricVars, rin>>

ReduceSpec == ReduceInit /\ [][ReduceStep]_vars

(* ------------------------------- claims -------------------------------- *)
\* C1: on a Sum, after any sequence of update_state calls without sample_weight
\* and without mask since construction or the last reset, total (and the value
\* result() returns) is the sum of every element of every batch.
C1_SumAccumulates ==
    (kind = "Sum" /\ tracked /\ ~hasW /\ ~hasM) =>
        /\ total = expTotal
        /\ op = "result" => ret = Some(expTotal)

\* C2: a fresh Mean after one update_state(v, w) with per-sample weights returns
\* sum(v*w) / (sum(w) + epsilon), the weight sum taken as a real number.
C2_WeightedMean ==
    (kind = "Mean" /\ nUpd = 1 /\ nSince = 1 /\ hasW /\ ~hasM /\ simple /\ op = "result") =>
        ret = Some(RDiv(expTotal, RAdd(expCount, epsilon)))

\* C3: reset_state() leaves total = 0 (and count = 0), the state of a freshly
\* constructed object, and result() with no update since then returns 0.
C3_ResetEqualsFresh ==
    /\ op = "reset" => (total = Zero /\ count = 0 /\ raised = "none")
    /\ (op = "result" /\ nSince = 0) => (ret = Some(Zero) /\ raised = "none")

C3_Witness ==
    /\ kind = "Mean" /\ op = "result" /\ nSince = 0 /\ nUpd = MaxOps
    /\ ret = Some(Zero)

\* C4: on a Mean, after any sequence of update_state calls with rank-1 batches and
\* no sample_weight (and no mask) since construction or the last reset, total is
\* the sum of all elements, count the sum of the batch lengths, no call raised,
\* and result() returns total / (count + epsilon).
C4_UnweightedMean ==
    (kind = "Mean" /\ simple /\ ~hasW /\ ~hasM) =>
        /\ total = expTotal
        /\ FromInt(count) = expCount
        /\ raised = "none"
        /\ op = "result" => ret = Some(RDiv(expTotal, RAdd(expCount, epsilon)))

C4_Witness ==
    /\ kind = "Mean" /\ simple /\ ~hasW /\ ~hasM /\ nSince = 2 /\ op = "result"
    /\ total = FromInt(10) /\ count = 4

\* C5: on a Mean, count is the cumulative weighted number of samples folded in
\* since the last reset: the sum of the per-sample weights of a weighted call, the
\* axis-0 length of an unweighted one.
C5_CountInvariant ==
    (kind = "Mean" /\ simple /\ ~hasM) => FromInt(count) = expCount

\* C6: a result() call leaves total and count unchanged, and a result() call that
\* directly follows another returns the same value.
C6_ResultIsPure ==
    [][op' = "result" =>
        /\ total' = total
        /\ count' = count
        /\ op = "result" => ret' = ret]_vars

C6_Witness ==
    /\ kind = "Mean" /\ reads = 2 /\ nSince = 2 /\ count > 0 /\ ret # Some(Zero)

\* C7: reduce_to_samplewise_values returns a pair on every path that returns: one
\* value per sample (rank 1, axis 0 kept) for a batch of rank > 1, and the
\* adjusted weight, None exactly when no sample_weight was given.
C7_ReducerReturnsPair ==
    (rout.kind # "pending" /\ rout.kind # "error") =>
        /\ rout.kind = "pair"
        /\ Rank(rin.values) > 1 =>
              (Rank(rout.values) = 1 /\ rout.values.shape[1] = rin.values.shape[1])
        /\ (rout.weight = None) <=> (rin.weight = None)

\* C8: when the values carry a mask, with or without a sample_weight, the
\* elements whose mask is 0 add nothing to total, nor (Mean) to count.
C8_MaskHonoured ==
    (kind \in {"Sum", "Mean"} /\ simple /\ hasM) =>
        /\ total = expTotal
        /\ (kind = "Mean" /\ ~hasW) => FromInt(count) = expCount

\* C9: MeanMetricWrapper.update_state leaves total and count as Mean.update_state
\* does from the same state, given fn(y_true, y_pred) and the sample_weight merged
\* with y_pred's mask when both are present (unchanged otherwise); y_true's mask
\* plays no part, and fn is called once per update.
C9_WrapperDelegates ==
    kind = "Wrapper" =>
        /\ total = expTotal
        /\ FromInt(count) = expCount
        /\ fnCalls = nUpd

C9_Witness ==
    /\ kind = "Wrapper" /\ op = "update" /\ raised = "none" /\ hasW /\ hasM
    /\ nSince = 2 /\ total # Zero /\ count > 0

\* C10: an update_state call that raises leaves total and count as they were.
C10_FailedUpdateAtomic ==
    [][(op' = "update" /\ raised' # "none") => (total' = total /\ count' = count)]_vars

====
